---- MODULE Spec2Model ----
(***************************************************************************)
(* Model of lazysort (src/src/lib.rs): LazySortIterator, a lazy quicksort  *)
(* that keeps a buffer `data`, a stack `work` of (lower, upper) index      *)
(* ranges and a comparator `by`, and emits one element per call of next(). *)
(*                                                                         *)
(* Indices are the 0-based usize indices of the source; the element at     *)
(* index k of a Vec is element k + 1 of the TLA+ sequence (see at, swap).  *)
(* One call of next() is split into steps at the points the source names:  *)
(* next (pop), qsort (entry), partition (entry), scan (one iteration of    *)
(* the while loop), partition_return, qsort_recurse (push and recursion).  *)
(* The iterator is owned by one consumer, so the steps never interleave:   *)
(* pc says where the single thread of control is.                          *)
(***************************************************************************)
EXTENDS Integers, Sequences, FiniteSets, Bags, TLC

(* ---- bounds of the model ---- *)
MaxLen == 4      \* longest input sequence
MaxVal == 2      \* element values (keys) are 0..MaxVal
MaxNone == 2     \* calls of next() made after exhaustion

(* ---- std::cmp::Ordering and Option ---- *)
Less == "Less"
Equal == "Equal"
Greater == "Greater"

None == [some |-> FALSE]
Some(v) == [some |-> TRUE, val |-> v]

(* The incomparable value of a PartialOrd type (f64::NAN): partial_cmp    *)
(* yields None whenever it is one of the arguments.                        *)
NaN == 0 - 1

Vals == 0..MaxVal
PVals == Vals \cup {NaN}

(* Ord::cmp on the integers.                                               *)
Ord_cmp(a, b) == IF a < b THEN Less ELSE IF a > b THEN Greater ELSE Equal

(* PartialOrd::partial_cmp on floats: None if either argument is NaN.      *)
partial_cmp(a, b) == IF a = NaN \/ b = NaN THEN None ELSE Some(Ord_cmp(a, b))

partial_cmp_first(a, b) ==
    LET r == partial_cmp(a, b) IN IF r.some THEN r.val ELSE Less

partial_cmp_last(a, b) ==
    LET r == partial_cmp(a, b) IN IF r.some THEN r.val ELSE Greater

(* by_key comparing the ids instead of the keys.                           *)
by_key_on_id(a, b) == Ord_cmp(a[2], b[2])

(* The caller's comparator of sorted_by in tests::sorted_by_test: elements *)
(* are (key, id) pairs and only the keys are compared.                     *)
by_key(a, b) == Ord_cmp(a[1], b[1])

(* The entry points: each only chooses the comparator `by`.                *)
(* "sorted_by_any" is sorted_by with a closure that may answer anything on  *)
(* every call (F is only bound by FnMut(&T, &T) -> Ordering).              *)
Modes ==
    {"sorted", "sorted_partial_first", "sorted_partial_last", "sorted_by",
     "sorted_by_any"}

(* The inputs of each entry point, up to MaxLen elements. The pairs given  *)
(* to sorted_by carry their input position as id. The arbitrary closure    *)
(* never looks at its arguments, so its runs depend on the input's length  *)
(* only: its inputs are the ones whose keys are already in ascending       *)
(* order, where any misplacement shows in the output.                      *)
SeqsUpTo(S, n) == UNION {[1..k -> S] : k \in 0..n}

Ascending(s) == \A k \in 1..(Len(s) - 1) : s[k] <= s[k + 1]

Inputs(m) ==
    CASE m = "sorted" -> SeqsUpTo(Vals, MaxLen)
      [] m = "sorted_by" ->
            {[k \in DOMAIN s |-> <<s[k], k>>] : s \in SeqsUpTo(Vals, MaxLen)}
      [] m = "sorted_by_any" ->
            {[k \in DOMAIN s |-> <<s[k], k>>] :
                s \in {t \in SeqsUpTo(Vals, MaxLen) : Ascending(t)}}
      [] OTHER -> SeqsUpTo(PVals, MaxLen)

VARIABLES
    mode,    \* the entry point that built the iterator (fixes `by`)
    input,   \* the collected input sequence (never changes)
    data,    \* LazySortIterator.data
    work,    \* LazySortIterator.work, top of the stack last
    out,     \* the elements returned by next() so far, in order
    ret,     \* the value returned by the last completed next()
    calls,   \* number of completed calls of next()
    pc,      \* "idle" between calls, else the step next() is at
    lower,   \* argument `lower` of the running qsort / partition
    upper,   \* argument `upper` of the running qsort / partition
    p,       \* pivot index: argument, then result, of partition
    i,       \* scan index of partition's loop
    nextp,   \* end of the block of Greater elements in partition's loop
    ncmp,    \* number of comparator calls so far
    panic,   \* "" or the reason the program panicked
    pelem,   \* history: Some(the element partition was given as pivot)
    sdata    \* history: the buffer when partition's scan loop began

vars == <<mode, input, data, work, out, ret, calls, pc, lower, upper, p, i,
          nextp, ncmp, panic, pelem, sdata>>

(* The comparator stored in the iterator.                                  *)
by(a, b) ==
    CASE mode = "sorted" -> Ord_cmp(a, b)
      [] mode = "sorted_partial_first" -> partial_cmp_first(a, b)
      [] mode = "sorted_partial_last" -> partial_cmp_last(a, b)
      [] mode = "sorted_by" -> by_key(a, b)

Orderings == {Less, Equal, Greater}

(* The results one call (self.by)(a, b) can have.                          *)
by_call(a, b) == IF mode = "sorted_by_any" THEN Orderings ELSE {by(a, b)}

(* ---- Vec helpers, 0-based ---- *)
at(d, k) == d[k + 1]

(* swap copying d[b] over d[a] without the exchange.                       *)
swap_overwrite(d, a, b) == [d EXCEPT ![a + 1] = d[b + 1]]

swap(d, a, b) == [d EXCEPT ![a + 1] = d[b + 1], ![b + 1] = d[a + 1]]

(* pivot rounding toward lower instead of upper.                           *)
pivot_toward_lower(lo, up) == lo - ((lo - up) \div 2)

(* pivot offset from lower instead of upper.                               *)
pivot_from_lower(lo, up) == lo + ((lo - up) \div 2)

pivot(lo, up) == up + ((lo - up) \div 2)

(* new seeding the range (l, 0) instead of (l - 1, 0).                     *)
new_work_full_len(l) == IF l = 0 THEN <<>> ELSE << <<l, 0>> >>

(* new without the test for an empty input.                               *)
new_work_unguarded(l) == << <<l - 1, 0>> >>

(* LazySortIterator::new: the initial work stack for an input of length l. *)
new_work(l) == IF l = 0 THEN <<>> ELSE << <<l - 1, 0>> >>

(* size_hint with a lower bound of zero.                                   *)
size_hint_of_zero(d) == LET l == Len(d) IN <<0, Some(l)>>

(* Iterator::size_hint.                                                    *)
size_hint_of(d) == LET l == Len(d) IN <<l, Some(l)>>

size_hint == size_hint_of(data)

(* The loop body moving the elements that compare Less.                    *)
scan_arm_on_less(d, si, np, o) ==
    IF o = Less
    THEN [data |-> IF si # np THEN swap(d, si, np) ELSE d, nextp |-> np + 1]
    ELSE [data |-> d, nextp |-> np]

(* The loop body moving the elements that compare Equal as well.           *)
scan_arm_on_not_less(d, si, np, o) ==
    IF o # Less
    THEN [data |-> IF si # np THEN swap(d, si, np) ELSE d, nextp |-> np + 1]
    ELSE [data |-> d, nextp |-> np]

(* The loop body swapping whatever the comparator says.                    *)
scan_arm_swap_always(d, si, np, o) ==
    IF o = Greater
    THEN [data |-> IF si # np THEN swap(d, si, np) ELSE d, nextp |-> np + 1]
    ELSE [data |-> IF si # np THEN swap(d, si, np) ELSE d, nextp |-> np]

(* The loop body swapping without advancing nextp.                         *)
scan_arm_stale_nextp(d, si, np, o) ==
    IF o = Greater
    THEN [data |-> IF si # np THEN swap(d, si, np) ELSE d, nextp |-> np]
    ELSE [data |-> d, nextp |-> np]

(* The loop body advancing nextp without the swap.                         *)
scan_arm_no_swap(d, si, np, o) ==
    IF o = Greater
    THEN [data |-> d, nextp |-> np + 1]
    ELSE [data |-> d, nextp |-> np]

(* The match of partition's loop body on the comparator's result o: the    *)
(* buffer and nextp after the arm has run.                                 *)
scan_arm(d, si, np, o) ==
    IF o = Greater
    THEN [data |-> IF si # np THEN swap(d, si, np) ELSE d, nextp |-> np + 1]
    ELSE [data |-> d, nextp |-> np]

(* qsort pushing the pivot with the Greater block in both branches.        *)
qsort_push_keep_pivot(pp, lo, up) == <<pp, up>>

(* qsort pushing the Greater block without the pivot in both branches.     *)
qsort_push_drop_pivot(pp, lo, up) == <<pp - 1, up>>

(* qsort after partition returned pp: the work item it pushes and the      *)
(* range it recurses into.                                                 *)
qsort_push(pp, lo, up) == IF pp = lo THEN <<pp - 1, up>> ELSE <<pp, up>>

(* qsort recursing into (lower, p): the pivot stays in the active range.   *)
qsort_range_with_pivot(pp, lo, up) == <<lo, pp>>

qsort_range(pp, lo, up) == IF pp = lo THEN <<lo, pp>> ELSE <<lo, pp + 1>>

(* ---- the state machine ---- *)
Init ==
    /\ mode \in Modes
    /\ input \in Inputs(mode)
    /\ data = input
    /\ work = new_work(Len(input))
    /\ out = <<>>
    /\ ret = None
    /\ calls = 0
    /\ pc = "idle"
    /\ lower = 0
    /\ upper = 0
    /\ p = 0
    /\ i = 0
    /\ nextp = 0
    /\ ncmp = 0
    /\ panic = ""
    /\ pelem = None
    /\ sdata = <<>>

Panic(why) ==
    /\ pc' = "panic"
    /\ panic' = why
    /\ UNCHANGED <<mode, input, data, work, out, ret, calls, lower, upper, p,
                   i, nextp, ncmp,
                   pelem, sdata>>

(* Iterator::next: pop a work item and run qsort on it, or return None.    *)
next ==
    /\ pc = "idle"
    /\ calls < Len(input) + MaxNone
    /\ IF work = <<>>
       THEN /\ ret' = None
            /\ calls' = calls + 1
            /\ UNCHANGED <<mode, input, data, work, out, pc, lower, upper, p,
                           i, nextp, ncmp, panic,
                           pelem, sdata>>
       ELSE /\ work' = SubSeq(work, 1, Len(work) - 1)
            /\ lower' = work[Len(work)][1]
            /\ upper' = work[Len(work)][2]
            /\ pc' = "qsort"
            /\ UNCHANGED <<mode, input, data, out, ret, calls, p, i, nextp,
                           ncmp, panic,
                           pelem, sdata>>

(* qsort, entry: a single-index range is popped off the buffer's tail and  *)
(* returned; any other range gets its pivot and is partitioned.            *)
qsort ==
    /\ pc = "qsort"
    /\ IF lower = upper
       THEN IF Len(data) = 0 \/ lower # Len(data) - 1
            THEN Panic("assert lower == data.len() - 1")
            ELSE /\ data' = SubSeq(data, 1, Len(data) - 1)
                 /\ out' = Append(out, data[Len(data)])
                 /\ ret' = Some(data[Len(data)])
                 /\ calls' = calls + 1
                 /\ pc' = "idle"
                 /\ lower' = 0
                 /\ upper' = 0
                 /\ p' = 0
                 /\ i' = 0
                 /\ nextp' = 0
                 /\ pelem' = None
                 /\ sdata' = <<>>
                 /\ UNCHANGED <<mode, input, work, ncmp, panic>>
       ELSE IF lower < upper
            THEN Panic("underflow in pivot")
            ELSE /\ p' = pivot(lower, upper)
                 /\ pc' = "partition"
                 /\ UNCHANGED <<mode, input, data, work, out, ret, calls,
                                lower, upper, i, nextp, ncmp, panic,
                                pelem, sdata>>

(* partition starting its scan at index 0 instead of upper.                *)
partition_scan_from_zero ==
    /\ pc = "partition"
    /\ IF ~(lower >= upper /\ p <= lower /\ p >= upper)
       THEN Panic("assert in partition")
       ELSE IF lower - upper = 0
            THEN /\ pc' = "partitioned"
                 /\ UNCHANGED <<mode, input, data, work, out, ret, calls,
                                lower, upper, p, i, nextp, ncmp, panic,
                                pelem, sdata>>
            ELSE IF lower >= Len(data)
                 THEN Panic("index out of bounds")
                 ELSE /\ data' = swap(data, lower, p)
                      /\ i' = 0
                      /\ nextp' = 0
                      /\ pc' = "scan"
                      /\ pelem' = Some(at(data, p))
                      /\ sdata' = swap(data, lower, p)
                      /\ UNCHANGED <<mode, input, work, out, ret, calls,
                                     lower, upper, p, ncmp, panic>>

(* partition, entry: the three assertions, then the pivot goes to the tail *)
(* of the range (lasti is lower) and the scan starts at upper.             *)
partition ==
    /\ pc = "partition"
    /\ IF ~(lower >= upper /\ p <= lower /\ p >= upper)
       THEN Panic("assert in partition")
       ELSE IF lower - upper = 0
            THEN /\ pc' = "partitioned"
                 /\ UNCHANGED <<mode, input, data, work, out, ret, calls,
                                lower, upper, p, i, nextp, ncmp, panic,
                                pelem, sdata>>
            ELSE IF lower >= Len(data)
                 THEN Panic("index out of bounds")
                 ELSE /\ data' = swap(data, lower, p)
                      /\ i' = upper
                      /\ nextp' = upper
                      /\ pc' = "scan"
                      /\ pelem' = Some(at(data, p))
                      /\ sdata' = swap(data, lower, p)
                      /\ UNCHANGED <<mode, input, work, out, ret, calls,
                                     lower, upper, p, ncmp, panic>>

(* One iteration of partition's while loop.                                *)
scan ==
    /\ pc = "scan"
    /\ i < lower
    /\ \E o \in by_call(at(data, i), at(data, lower)) :
          LET r == scan_arm(data, i, nextp, o)
          IN /\ data' = r.data
             /\ nextp' = r.nextp
    /\ i' = i + 1
    /\ ncmp' = ncmp + 1
    /\ UNCHANGED <<mode, input, work, out, ret, calls, pc, lower, upper, p,
                   panic,
                   pelem, sdata>>

(* partition returning nextp without the final swap of the pivot.          *)
partition_return_no_swap ==
    /\ pc = "scan"
    /\ ~(i < lower)
    /\ p' = nextp
    /\ pc' = "partitioned"
    /\ UNCHANGED <<mode, input, data, work, out, ret, calls, lower, upper, i,
                   nextp, ncmp, panic, pelem, sdata>>

(* The loop is over: the pivot is swapped to nextp, which is returned.     *)
partition_return ==
    /\ pc = "scan"
    /\ ~(i < lower)
    /\ data' = swap(data, nextp, lower)
    /\ p' = nextp
    /\ pc' = "partitioned"
    /\ UNCHANGED <<mode, input, work, out, ret, calls, lower, upper, i, nextp,
                   ncmp, panic,
                   pelem, sdata>>

(* qsort after partition: push the block that stays unresolved and recurse *)
(* into the block at the tail.                                             *)
qsort_recurse ==
    /\ pc = "partitioned"
    /\ IF qsort_push(p, lower, upper)[1] < 0
       THEN Panic("underflow in p - 1")
       ELSE /\ work' = Append(work, qsort_push(p, lower, upper))
            /\ lower' = qsort_range(p, lower, upper)[1]
            /\ upper' = qsort_range(p, lower, upper)[2]
            /\ pc' = "qsort"
            /\ UNCHANGED <<mode, input, data, out, ret, calls, p, i, nextp,
                           ncmp, panic,
                           pelem, sdata>>

Next ==
    \/ next
    \/ qsort
    \/ partition
    \/ scan
    \/ partition_return
    \/ qsort_recurse

Spec == Init /\ [][Next]_vars

(* A call of next() runs to its return once made (the steps inside it are  *)
(* ordinary sequential code); the consumer is free never to call again.    *)
Running == qsort \/ partition \/ scan \/ partition_return \/ qsort_recurse

FairSpec == Spec /\ WF_vars(Running)

(* partition as a function of its arguments: any buffer, any range inside  *)
(* it and any pivot index inside the range, run until it returns.          *)
InitPartition ==
    /\ mode \in Modes \ {"sorted_by_any"}
    /\ input \in Inputs(mode)
    /\ data = input
    /\ work = <<>>
    /\ out = <<>>
    /\ ret = None
    /\ calls = 0
    /\ pc = "partition"
    /\ lower \in 0..(Len(input) - 1)
    /\ upper \in 0..lower
    /\ p \in upper..lower
    /\ i = 0
    /\ nextp = 0
    /\ ncmp = 0
    /\ panic = ""
    /\ pelem = None
    /\ sdata = <<>>

NextPartition ==
    \/ partition
    \/ scan
    \/ partition_return

SpecPartition == InitPartition /\ [][NextPartition]_vars

(* ---- reference definitions used by the properties ---- *)
RECURSIVE Insert(_, _)
Insert(x, s) ==
    IF s = <<>> THEN <<x>>
    ELSE IF x <= s[1] THEN <<x>> \o s
    ELSE <<s[1]>> \o Insert(x, Tail(s))

(* Reference ascending sort of a sequence of integers.                     *)
RECURSIVE RefSort(_)
RefSort(s) == IF s = <<>> THEN <<>> ELSE Insert(s[1], RefSort(Tail(s)))

Keys(s) == [k \in DOMAIN s |-> s[k][1]]

BagOf(s) ==
    [x \in {s[k] : k \in DOMAIN s} |-> Cardinality({k \in DOMAIN s : s[k] = x})]

(* next() has just returned None: the iterator was drained.                *)
Drained == pc = "idle" /\ calls > 0 /\ ret = None

(* C1: total-order correctness. Draining an iterator built by sorted()     *)
(* yields the reference ascending sort of the input (same multiset, in     *)
(* non-decreasing order).                                                  *)
TotalOrderCorrectness ==
    (mode = "sorted" /\ Drained) => out = RefSort(input)

TotalOrderWitness ==
    /\ mode = "sorted"
    /\ Drained
    /\ Len(input) >= 3
    /\ input # RefSort(input)
    /\ \E a, b \in DOMAIN input : a # b /\ input[a] = input[b]

(* C2: partial consumption. Under sorted(), after any number k of calls    *)
(* the k values returned are the first k of the reference sort of the      *)
(* whole input, no call panics, and a value just returned is less than or  *)
(* equal to every element still in the buffer.                             *)
PartialConsumption ==
    mode = "sorted" =>
        /\ panic = ""
        /\ pc # "panic"
        /\ out = SubSeq(RefSort(input), 1, Len(out))
        /\ (pc = "idle" /\ ret.some) =>
               \A k \in DOMAIN data : ret.val <= data[k]

PartialConsumptionWitness ==
    /\ mode = "sorted"
    /\ pc = "idle"
    /\ Len(out) = 2
    /\ Len(data) >= 2
    /\ work # <<>>
    /\ input # RefSort(input)

(* C3: partial-order placement. Draining sorted_partial(first = true)      *)
(* emits every incomparable value (NaN) before every comparable one, and   *)
(* sorted_partial(first = false) emits every NaN after every comparable    *)
(* one.                                                                    *)
PartialOrderPlacement ==
    /\ (mode = "sorted_partial_first" /\ Drained) =>
           \A a, b \in DOMAIN out : (out[a] = NaN /\ out[b] # NaN) => a < b
    /\ (mode = "sorted_partial_last" /\ Drained) =>
           \A a, b \in DOMAIN out : (out[a] = NaN /\ out[b] # NaN) => a > b

(* C4: custom comparator correctness. Draining sorted_by() with a          *)
(* comparator on the keys emits the input pairs (same multiset) with their *)
(* keys in reference ascending order; with distinct keys that fixes the    *)
(* order of the ids.                                                       *)
CustomComparatorCorrectness ==
    (mode = "sorted_by" /\ Drained) =>
        /\ Keys(out) = RefSort(Keys(input))
        /\ BagOf(out) = BagOf(input)

CustomComparatorWitness ==
    /\ mode = "sorted_by"
    /\ Drained
    /\ Len(input) >= 3
    /\ Keys(input) # RefSort(Keys(input))
    /\ \A a, b \in DOMAIN input : a # b => input[a][1] # input[b][1]

(* C5: exact length hint. In every state size_hint() is (m, Some(m)) with  *)
(* m the buffer length, and m is the input length minus the number of      *)
(* elements emitted; a step that emits an element removes exactly the      *)
(* element at the highest buffer index and returns it.                     *)
ExactLengthHint ==
    /\ [](/\ size_hint = <<Len(data), Some(Len(data))>>
          /\ size_hint[1] = Len(input) - Len(out))
    /\ [][(out' # out \/ data' # data \/ calls' # calls) =>
             \/ /\ Len(data') = Len(data)
                /\ out' = out
             \/ /\ Len(data) > 0
                /\ data' = SubSeq(data, 1, Len(data) - 1)
                /\ out' = Append(out, data[Len(data)])
                /\ ret' = Some(data[Len(data)])
                /\ calls' = calls + 1]_vars

ExactLengthHintWitness ==
    /\ pc = "idle"
    /\ Len(input) >= 3
    /\ Len(out) = 2
    /\ size_hint = <<Len(input) - 2, Some(Len(input) - 2)>>

(* C6: exhaustion. Between calls the work stack is empty exactly when the  *)
(* buffer is; the k-th call of next() returns an element iff k is at most  *)
(* the input length (no call panics), and a call on an empty work stack    *)
(* returns None and leaves buffer and stack as they were.                  *)
Exhaustion ==
    /\ [](/\ panic = ""
          /\ pc = "idle" =>
                /\ (work = <<>>) <=> (data = <<>>)
                /\ calls > 0 => (ret.some <=> calls <= Len(input)))
    /\ [][(pc = "idle" /\ work = <<>>) =>
             /\ ret' = None
             /\ data' = data
             /\ work' = work
             /\ pc' = "idle"]_vars

ExhaustionWitness ==
    /\ Len(input) >= 2
    /\ pc = "idle"
    /\ calls = Len(input) + 2
    /\ ret = None
    /\ Len(out) = Len(input)

(* C7: emptiness. For an empty input the work stack and the buffer are     *)
(* empty from construction on, size_hint() is (0, Some(0)), and next()     *)
(* returns None without a comparator call or a panic.                      *)
Emptiness ==
    input = <<>> =>
        /\ work = <<>>
        /\ data = <<>>
        /\ size_hint = <<0, Some(0)>>
        /\ pc = "idle"
        /\ ncmp = 0
        /\ panic = ""
        /\ ret = None

EmptinessWitness ==
    /\ input = <<>>
    /\ calls = 1
    /\ ret = None
    /\ out = <<>>

(* C8: no stability. For the two-element input of sorted_by whose elements *)
(* have equal keys (the comparator says Equal) and different ids, the      *)
(* drain emits the two in the reverse of their input order.                *)
NoStability ==
    (/\ mode = "sorted_by"
     /\ Len(input) = 2
     /\ Drained) =>
        (by_key(input[1], input[2]) = Equal => out = <<input[2], input[1]>>)

NoStabilityWitness ==
    /\ mode = "sorted_by"
    /\ Drained
    /\ input = << <<1, 1>>, <<1, 2>> >>
    /\ out = << <<1, 2>>, <<1, 1>> >>

(* C9: tail finalization. Whenever qsort is entered with lower = upper,    *)
(* that index is the last index of the buffer, so the assertion holds and  *)
(* the element emitted is the element of that single-index range.          *)
TailFinalization ==
    /\ [](/\ panic # "assert lower == data.len() - 1"
          /\ (pc = "qsort" /\ lower = upper) =>
                 (Len(data) > 0 /\ lower = Len(data) - 1))
    /\ [][(pc = "qsort" /\ lower = upper) =>
             (ret' = Some(at(data, lower)) /\ Len(data') = lower)]_vars

TailFinalizationWitness ==
    /\ pc = "qsort"
    /\ lower = upper
    /\ lower = Len(data) - 1
    /\ lower >= 1
    /\ Len(out) >= 1

(* C10: well-formed ranges. Every work item on the stack and every range   *)
(* qsort or partition runs on has lower >= upper >= 0, the pivot index     *)
(* given to partition lies in [upper, lower], and nothing panics: no       *)
(* underflow, no failed assertion.                                         *)
WellFormedRanges ==
    /\ panic = ""
    /\ pc # "panic"
    /\ \A k \in DOMAIN work : work[k][1] >= work[k][2] /\ work[k][2] >= 0
    /\ pc \in {"qsort", "partition", "scan", "partitioned"} =>
           (lower >= upper /\ upper >= 0)
    /\ pc \in {"partition", "partitioned"} => (upper <= p /\ p <= lower)

WellFormedRangesWitness ==
    /\ pc = "partitioned"
    /\ p = lower
    /\ lower > upper
    /\ upper >= 1
    /\ work # <<>>

(* C11: range tiling. Between two calls of next() the ranges               *)
(* [upper, lower] of the work items are pairwise disjoint, cover exactly   *)
(* the indices 0 .. data.len() - 1, and are stacked in increasing index    *)
(* order: the bottom item starts at 0, each item starts one above the      *)
(* lower bound of the item beneath it, and the top item ends at the last   *)
(* index of the buffer.                                                    *)
RangeTiling ==
    pc = "idle" =>
        /\ \A k \in DOMAIN work :
               /\ 0 <= work[k][2]
               /\ work[k][2] <= work[k][1]
               /\ work[k][1] <= Len(data) - 1
        /\ \A idx \in 0..(Len(data) - 1) :
               Cardinality({k \in DOMAIN work :
                               work[k][2] <= idx /\ idx <= work[k][1]}) = 1
        /\ work # <<>> =>
               /\ work[1][2] = 0
               /\ work[Len(work)][1] = Len(data) - 1
        /\ \A k \in 1..(Len(work) - 1) : work[k + 1][2] = work[k][1] + 1

RangeTilingWitness ==
    /\ pc = "idle"
    /\ Len(out) >= 1
    /\ Len(work) >= 2
    /\ \E k \in DOMAIN work : work[k][1] > work[k][2]

(* C12: partition post-condition. For every buffer, every range            *)
(* [upper, lower] with lower > upper and every pivot index in it, when      *)
(* partition returns p: p is in [upper, lower], the element that was at    *)
(* the pivot index is at p, every element at an index in [upper, p)        *)
(* compares Greater than it and every element at an index in (p, lower]    *)
(* compares Less or Equal to it.                                           *)
PartitionPostcondition ==
    (pc = "partitioned" /\ lower > upper) =>
        /\ upper <= p
        /\ p <= lower
        /\ pelem = Some(at(data, p))
        /\ \A k \in upper..(p - 1) : by(at(data, k), at(data, p)) = Greater
        /\ \A k \in (p + 1)..lower :
               by(at(data, k), at(data, p)) \in {Less, Equal}

PartitionPostconditionWitness ==
    /\ pc = "partitioned"
    /\ upper < p
    /\ p < lower
    /\ lower < Len(data) - 1
    /\ data # input
    /\ pelem = Some(at(data, p))

(* C13: termination of one pull. A call of next() that has started         *)
(* returns; it emits exactly one element, at its return; every recursive   *)
(* qsort step runs on a range strictly smaller than the one before         *)
(* (lower - upper decreases), and every partition step is followed by the  *)
(* push of exactly one work item, the only change of the stack inside the  *)
(* call.                                                                   *)
OnePullTerminates ==
    /\ (pc # "idle") ~> (pc = "idle")
    /\ [][pc = "partitioned" =>
             /\ lower' >= upper'
             /\ lower' - upper' < lower - upper
             /\ Len(work') = Len(work) + 1]_vars
    /\ [][(pc \in {"qsort", "partition", "scan"}) => (work' = work)]_vars
    /\ [][pc' # "idle" => (out' = out)]_vars
    /\ [][(pc # "idle" /\ pc' = "idle") => (Len(out') = Len(out) + 1)]_vars

OnePullTerminatesWitness ==
    /\ pc = "idle"
    /\ Len(out) = 1
    /\ Len(work) = 3
    /\ ncmp >= 5

(* C14 as stated: whenever partition of [upper, lower] returns p = lower,  *)
(* no element of the range compared less-or-equal to the pivot and the     *)
(* pivot, at index lower, is the maximum element of the range.             *)
PivotIsMaximum ==
    (/\ mode = "sorted"
     /\ pc = "partitioned"
     /\ p = lower
     /\ lower > upper) =>
        /\ \A k \in upper..(lower - 1) :
               by(at(data, k), at(data, lower)) = Greater
        /\ \A k \in upper..lower :
               by(at(data, k), at(data, lower)) \in {Less, Equal}

(* C14, amended: whenever partition of [upper, lower], lower > upper,      *)
(* returns p = lower, the pivot element sits at index lower and every      *)
(* other element of the range compares Greater than it (none less or       *)
(* equal), so that under a total order the pivot is the minimum of the     *)
(* range; qsort then turns to the single-index range (lower, lower)        *)
(* without touching the buffer and the pivot is the element emitted.       *)
PivotIsMinimum ==
    /\ []((/\ mode # "sorted_by_any"
           /\ pc = "partitioned"
           /\ p = lower
           /\ lower > upper) =>
              /\ pelem = Some(at(data, lower))
              /\ \A k \in upper..(lower - 1) :
                     by(at(data, k), at(data, lower)) = Greater
              /\ mode \in {"sorted", "sorted_by"} =>
                     \A k \in upper..lower :
                         by(at(data, lower), at(data, k)) \in {Less, Equal})
    /\ [][(pc = "partitioned" /\ p = lower /\ lower > upper) =>
             /\ pc' = "qsort"
             /\ lower' = lower
             /\ upper' = lower
             /\ data' = data
             /\ pelem' = pelem]_vars
    /\ [][(pc = "qsort" /\ lower = upper /\ p = lower /\ pelem.some) =>
             (ret' = pelem /\ out' = Append(out, pelem.val))]_vars

PivotIsMinimumWitness ==
    /\ mode = "sorted"
    /\ pc = "qsort"
    /\ lower = upper
    /\ p = lower
    /\ pelem.some
    /\ Len(work) >= 1
    /\ work[Len(work)][1] > work[Len(work)][2]
    /\ \E k \in DOMAIN data : data[k] > pelem.val

(* C15: comparator consistency in partial-order mode. For both values of   *)
(* the first flag and every pair (a, b) of input elements, the comparator  *)
(* of sorted_partial gives compare(a, b) = Less if and only if             *)
(* compare(b, a) = Greater, incomparable pairs included.                   *)
ComparatorConsistency ==
    mode \in {"sorted_partial_first", "sorted_partial_last"} =>
        \A j, k \in DOMAIN input :
            (by(input[j], input[k]) = Less) <=>
                (by(input[k], input[j]) = Greater)

(* C16 as stated: an element at a scanned index of [upper, lower - 1] that *)
(* compares Less or Equal to the pivot is at the same index when the scan  *)
(* loop ends as when the scan began.                                       *)
NonGreaterStayPut ==
    (pc = "scan" /\ ~(i < lower)) =>
        \A k \in upper..(lower - 1) :
            by(at(sdata, k), at(sdata, lower)) \in {Less, Equal} =>
                at(data, k) = at(sdata, k)

(* C16, amended: the iteration that scans an element comparing Less or     *)
(* Equal to the pivot changes nothing in the buffer, and an iteration that *)
(* scans a Greater element swaps it with the element at nextp; that one is *)
(* an already scanned Less-or-Equal element (or the Greater element        *)
(* itself), which so moves up to index i. Throughout the loop the pivot    *)
(* stays at lower, the unscanned indices are untouched, [upper, nextp)     *)
(* holds Greater elements and [nextp, i) holds Less-or-Equal elements.     *)
ScanKeepsBlocks ==
    /\ [](pc = "scan" =>
            /\ upper <= nextp
            /\ nextp <= i
            /\ i <= lower
            /\ \A k \in i..lower : at(data, k) = at(sdata, k)
            /\ \A k \in upper..(nextp - 1) :
                   by(at(data, k), at(data, lower)) = Greater
            /\ \A k \in nextp..(i - 1) :
                   by(at(data, k), at(data, lower)) \in {Less, Equal})
    /\ [][(pc = "scan" /\ pc' = "scan") =>
             IF by(at(data, i), at(data, lower)) = Greater
             THEN data' = swap(data, i, nextp) /\ nextp' = nextp + 1
             ELSE data' = data /\ nextp' = nextp]_vars

ScanKeepsBlocksWitness ==
    /\ pc = "scan"
    /\ ~(i < lower)
    /\ \E k \in upper..(lower - 1) :
           /\ by(at(sdata, k), at(sdata, lower)) \in {Less, Equal}
           /\ at(data, k) # at(sdata, k)

(* C17: block ordering. Under a total-order comparator (sorted, and        *)
(* sorted_by on the keys), between two calls of next(): for work items A   *)
(* beneath B on the stack, every buffer element in A's range compares      *)
(* greater than or equal to every buffer element in B's range, and every   *)
(* buffer element compares greater than or equal to every emitted element. *)
BlockOrdering ==
    (mode \in {"sorted", "sorted_by"} /\ pc = "idle") =>
        /\ \A ka, kb \in DOMAIN work :
               ka < kb =>
                   \A x \in work[ka][2]..work[ka][1] :
                       \A y \in work[kb][2]..work[kb][1] :
                           by(at(data, x), at(data, y)) \in {Greater, Equal}
        /\ \A k \in DOMAIN data :
               \A j \in DOMAIN out : by(data[k], out[j]) \in {Greater, Equal}

BlockOrderingWitness ==
    /\ mode = "sorted"
    /\ pc = "idle"
    /\ Len(out) >= 1
    /\ Len(work) >= 2
    /\ at(data, work[1][1]) > at(data, work[2][2])
    /\ at(data, work[2][2]) > out[1]

(* C18: robustness to malformed comparators. With a comparator that may    *)
(* answer anything on every call, nothing panics (no failed assertion, no  *)
(* index out of bounds, no underflow), every call of next() returns, the   *)
(* k-th call returns an element iff k is at most the input length, and the *)
(* drained output is a permutation of the input; only its order can be     *)
(* wrong.                                                                  *)
MalformedComparatorRobust ==
    /\ [](mode = "sorted_by_any" =>
            /\ panic = ""
            /\ pc # "panic"
            /\ (pc = "idle" /\ calls > 0) =>
                   (ret.some <=> calls <= Len(input))
            /\ Drained =>
                   (Len(out) = Len(input) /\ BagOf(out) = BagOf(input)))
    /\ (mode = "sorted_by_any" /\ pc # "idle") ~> (pc = "idle")

MalformedComparatorWitness ==
    /\ mode = "sorted_by_any"
    /\ Drained
    /\ Len(input) >= 3
    /\ Len(out) = Len(input)
    /\ Keys(input) = RefSort(Keys(input))
    /\ Keys(out) # RefSort(Keys(input))

(* C19: frame and conservation. A step of partition on [upper, lower]      *)
(* permutes the elements inside the range and leaves every element outside *)
(* it where it was; the other steps leave the buffer alone or remove its   *)
(* last element; so the emitted elements together with the buffered ones   *)
(* are always the input multiset. A call of next() pops the top work item  *)
(* and afterwards only pushes: the items below the popped one are never    *)
(* modified.                                                               *)
FrameAndConservation ==
    /\ [](BagOf(out \o data) = BagOf(input))
    /\ []((pc \in {"scan", "partitioned"} /\ sdata # <<>>) =>
            /\ Len(data) = Len(sdata)
            /\ \A k \in 0..(Len(data) - 1) :
                   (k < upper \/ k > lower) => at(data, k) = at(sdata, k))
    /\ [][(pc \in {"partition", "scan"}) =>
             /\ Len(data') = Len(data)
             /\ \A k \in 0..(Len(data) - 1) :
                    (k < upper \/ k > lower) => at(data', k) = at(data, k)
             /\ BagOf(SubSeq(data', upper + 1, lower + 1)) =
                    BagOf(SubSeq(data, upper + 1, lower + 1))]_vars
    /\ [][(pc \in {"idle", "qsort", "partitioned"}) =>
             \/ data' = data /\ out' = out
             \/ /\ data # <<>>
                /\ data' = SubSeq(data, 1, Len(data) - 1)
                /\ out' = Append(out, data[Len(data)])]_vars
    /\ [][(pc # "idle") =>
             /\ Len(work') >= Len(work)
             /\ SubSeq(work', 1, Len(work)) = work]_vars
    /\ [][(pc = "idle") =>
             (work' = work \/ work' = SubSeq(work, 1, Len(work) - 1))]_vars

FrameAndConservationWitness ==
    /\ pc = "partitioned"
    /\ upper >= 1
    /\ lower > upper
    /\ Len(work) >= 1
    /\ Len(out) >= 1
    /\ data # sdata

====
